---- MODULE Spec2Model ----
(***************************************************************************)
(* Model of src/main.py: the doctor-list monitor.  One invocation of the   *)
(* process (main) loads the persisted state, scrapes the listing, diffs    *)
(* it against the previous snapshot (detect_changes), posts the changes    *)
(* and saves the new state.  The location cache (get_doctor_locations)     *)
(* is a TTL cache keyed by doctor id.                                      *)
(***************************************************************************)
EXTENDS Integers, Sequences, FiniteSets, TLC

VARIABLES
    file,             \* doctor_state.json: absent, unparsable, or a saved state
    clock,            \* int(time.time()), seconds
    cache_days,       \* int(os.getenv('LOCATION_CACHE_DAYS', '7'))
    pc,               \* position of the running process in main()
    exit_status,      \* exit status of the process once pc = "done" (-1 before)
    outcome,          \* the path on which main() ended
    is_first_run,     \* main: is_first_run
    state,            \* main: state (aliased by previous_ids and location_cache)
    current_doctors,  \* main: current_doctors, the scraped listing
    current_ids,      \* detect_changes: current_ids (aliases the listing's dicts)
    changes,          \* detect_changes: changes
    idx,              \* position of the running for-loop of detect_changes
    notify_calls,     \* number of bot.send_message calls of this run
    fetch_calls,      \* number of scrape_doctor_locations calls of this run
    file_at_start,    \* doctor_state.json as it was when this run started
    runs,             \* number of invocations of the script so far
    calls,            \* SpecCache: the get_doctor_locations calls made so far
    lookups,          \* the get_doctor_locations calls of this run, in order
    history           \* SpecHistory: what earlier runs did (see NoHistory)

vars == <<file, clock, cache_days, pc, exit_status, outcome, is_first_run, state,
          current_doctors, current_ids, changes, idx, notify_calls, fetch_calls,
          file_at_start, runs, calls, lookups, history>>

(***************************************************************************)
(* Bounds of the model.                                                    *)
(***************************************************************************)
MaxRuns == 2       \* invocations of the script
MaxDays == 1       \* days that may pass between the first and the last invocation
MaxCalls == 2      \* SpecCache: calls of get_doctor_locations

Ids == {"A1", "A2"}
Availabilities == {"available", "full"}
FirstNames == {"Anna"}
LastNames == {"Rossi"}
Comuni == {"ARCO"}
TagTexts == Comuni \cup {""}
CacheDaysValues == {-1, 0, 1}
SecondsPerDay == 24 * 3600

\* A listing has at most as many rows as there are doctor codes: every set of
\* codes occurs, and so does a code listed twice.
MaxListing == Cardinality(Ids)

\* A detail page has at most as many tags as there are tag texts.
MaxTags == Cardinality(TagTexts)

(***************************************************************************)
(* Data.                                                                   *)
(***************************************************************************)
\* A row of the listing as scrape_doctor_list builds it.
Doctor(id, first_name, last_name, availability) ==
    [id |-> id, first_name |-> first_name, last_name |-> last_name,
     availability |-> availability]

Rows == {Doctor(id, fn, ln, av) : id \in Ids, fn \in FirstNames,
                                  ln \in LastNames, av \in Availabilities}

\* What scrape_doctor_list may return: any list of rows, ids possibly repeated.
Listings == UNION {[1..n -> Rows] : n \in 0..MaxListing}

\* The bold "Comune:" tags of a detail page, in page order.
Pages == UNION {[1..n -> TagTexts] : n \in 0..MaxTags}

\* What requests.get(detail_url) may give: an exception, or a page.
Responses == {[raises |-> r, tags |-> p] : r \in BOOLEAN, p \in Pages}

\* doctor['locations'] = locations
SetLocations(doctor, locations) ==
    [id |-> doctor.id, first_name |-> doctor.first_name,
     last_name |-> doctor.last_name, availability |-> doctor.availability,
     locations |-> locations]

(***************************************************************************)
(* Python dicts of doctors, in insertion order: sequences of doctor        *)
(* records with pairwise different ids, the id being the key.              *)
(***************************************************************************)
Keys(d) == {d[i].id : i \in 1..Len(d)}

HasKey(d, k) == \E i \in 1..Len(d) : d[i].id = k

Lookup(d, k) == d[CHOOSE i \in 1..Len(d) : d[i].id = k]

\* d[doctor['id']] = doctor
DictSet(d, doctor) ==
    IF HasKey(d, doctor.id)
    THEN [i \in 1..Len(d) |-> IF d[i].id = doctor.id THEN doctor ELSE d[i]]
    ELSE Append(d, doctor)

\* Mutant of KeyById: every row is kept, also a second one with the same id.
KeyByIdEveryRow(doctors) == doctors

\* {d['id']: d for d in doctors}
RECURSIVE KeyById(_)
KeyById(doctors) ==
    IF doctors = <<>> THEN <<>>
    ELSE DictSet(KeyById(SubSeq(doctors, 1, Len(doctors) - 1)), doctors[Len(doctors)])

EmptyState == [doctors |-> <<>>, location_cache |-> <<>>]

Absent == [kind |-> "absent", doctors |-> <<>>, location_cache |-> <<>>]
Corrupt == [kind |-> "corrupt", doctors |-> <<>>, location_cache |-> <<>>]

\* Mutant of FileExists: a file that cannot be parsed counts as missing.
FileExistsParsable(f) == f.kind = "valid"

\* Mutant of FileExists: the check never finds the file missing.
FileExistsAlways(f) == TRUE

\* os.path.exists(get_data_file_path())
FileExists(f) == f.kind # "absent"

\* load_state
LoadState(f) ==
    IF f.kind = "valid"
    THEN [doctors |-> f.doctors, location_cache |-> f.location_cache]
    ELSE EmptyState

\* save_state
SaveState(new_state) ==
    [kind |-> "valid", doctors |-> new_state.doctors,
     location_cache |-> new_state.location_cache]

(***************************************************************************)
(* The location cache: a dict from doctor id to                            *)
(* {'locations': [...], 'timestamp': int}.                                 *)
(***************************************************************************)
\* Mutant of CachePut: the scraped entry is not stored.
CachePutDropped(location_cache, doctor_id, entry) == location_cache

\* location_cache[doctor_id] = entry
CachePut(location_cache, doctor_id, entry) ==
    [k \in (DOMAIN location_cache) \cup {doctor_id} |->
        IF k = doctor_id THEN entry ELSE location_cache[k]]

\* The loop of scrape_doctor_locations over the bold tags: the text after
\* "Comune:" is kept when it is not empty and not yet in the list.
RECURSIVE CollectLocations(_)
CollectLocations(tags) ==
    IF tags = <<>> THEN <<>>
    ELSE LET locations == CollectLocations(SubSeq(tags, 1, Len(tags) - 1))
             location == tags[Len(tags)]
         IN  IF location # "" /\ \A i \in 1..Len(locations) : locations[i] # location
             THEN Append(locations, location)
             ELSE locations

\* scrape_doctor_locations: any exception gives the empty list.
ScrapeDoctorLocations(response) ==
    IF response.raises THEN <<>> ELSE CollectLocations(response.tags)

\* Mutant of CacheExpirySeconds: a TTL below one day counts as one day.
CacheExpiryAtLeastADay(days) == IF days < 1 THEN 24 * 3600 ELSE days * 24 * 3600

\* cache_expiry_seconds
CacheExpirySeconds(days) == days * 24 * 3600

\* Mutant of CacheHit: an entry whose age equals the expiry still counts as fresh.
CacheHitInclusive(doctor_id, location_cache, days, current_time) ==
    /\ doctor_id \in DOMAIN location_cache
    /\ current_time - location_cache[doctor_id].timestamp <= CacheExpirySeconds(days)

\* get_doctor_locations: "cached and not expired"
CacheHit(doctor_id, location_cache, days, current_time) ==
    /\ doctor_id \in DOMAIN location_cache
    /\ current_time - location_cache[doctor_id].timestamp < CacheExpirySeconds(days)

\* Mutant of NewEntry: the entry is not stamped with the current time.
NewEntryUnstamped(locations, current_time) ==
    [locations |-> locations, timestamp |-> 0]

\* get_doctor_locations: the entry written after a scrape
NewEntry(locations, current_time) ==
    [locations |-> locations, timestamp |-> current_time]

\* Mutant of GetDoctorLocations: a scrape that raised is not written to the cache.
GetDoctorLocationsUncached(doctor_id, location_cache, days, current_time, response) ==
    IF CacheHit(doctor_id, location_cache, days, current_time)
    THEN [locations |-> location_cache[doctor_id].locations,
          location_cache |-> location_cache, fetches |-> 0, slept |-> 0]
    ELSE LET locations == ScrapeDoctorLocations(response)
         IN  [locations |-> locations,
              location_cache |->
                  IF response.raises THEN location_cache
                  ELSE CachePut(location_cache, doctor_id,
                                NewEntry(locations, current_time)),
              fetches |-> 1, slept |-> 1]

\* get_doctor_locations: the returned locations, the cache after the call, the
\* number of detail fetches made and the seconds slept.
GetDoctorLocations(doctor_id, location_cache, days, current_time, response) ==
    IF CacheHit(doctor_id, location_cache, days, current_time)
    THEN [locations |-> location_cache[doctor_id].locations,
          location_cache |-> location_cache, fetches |-> 0, slept |-> 0]
    ELSE LET locations == ScrapeDoctorLocations(response)
         IN  [locations |-> locations,
              location_cache |->
                  CachePut(location_cache, doctor_id, NewEntry(locations, current_time)),
              fetches |-> 1, slept |-> 1]

\* What one call of get_doctor_locations did: the id, current_time, whether
\* scrape_doctor_locations was called and whether its request raised.
LookupMade(doctor_id, current_time, got, response) ==
    [doctor_id |-> doctor_id, at |-> current_time, fetched |-> got.fetches = 1,
     raised |-> got.fetches = 1 /\ response.raises]

(***************************************************************************)
(* detect_changes.                                                         *)
(***************************************************************************)
EmptyChanges == [added |-> <<>>, removed |-> <<>>, changed |-> <<>>]

\* previous_ids = previous_state.get('doctors', {}): the same object as state['doctors']
previous_ids == state.doctors

\* location_cache = state.get('location_cache', {}); changes['location_cache'] is
\* the same object
location_cache == state.location_cache

\* Mutant of IsAdded: the membership test is dropped.
IsAddedAlways(doc_id, previous) == TRUE

\* "if doc_id not in previous_ids"
IsAdded(doc_id, previous) == ~HasKey(previous, doc_id)

\* Mutant of IsRemoved: the membership test is dropped.
IsRemovedAlways(doc_id, current) == TRUE

\* "if doc_id not in current_ids"
IsRemoved(doc_id, current) == ~HasKey(current, doc_id)

\* Mutant of IsChanged: the availabilities are not compared.
IsChangedInBoth(current_doctor, previous) == HasKey(previous, current_doctor.id)

\* "if doc_id in previous_ids" and the availabilities differ
IsChanged(current_doctor, previous) ==
    /\ HasKey(previous, current_doctor.id)
    /\ current_doctor.availability # Lookup(previous, current_doctor.id).availability

\* Mutant of CachedLocations: the cache is not consulted.
CachedLocationsNone(cache, doc_id) == <<>>

\* cached = location_cache.get(doc_id, {}); cached.get('locations', [])
CachedLocations(cache, doc_id) ==
    IF doc_id \in DOMAIN cache THEN cache[doc_id].locations ELSE <<>>

\* total_changes
TotalChanges(c) == Len(c.added) + Len(c.removed) + Len(c.changed)

(***************************************************************************)
(* The process: main().                                                    *)
(***************************************************************************)
\* What is remembered of earlier runs, for the properties that span runs:
\*   removed_earlier  the ids an earlier run classified as removed while the
\*                    cache held an entry for them, with that entry and whether
\*                    that run saved its state; an id leaves the set when a
\*                    run that lists it saves its state;
\*   undelivered      the changes of the previous run when post_to_telegram
\*                    raised in it, no changes otherwise;
\*   failed_fetches   the scrape_doctor_locations calls of earlier runs whose
\*                    request raised, and whether that run saved its state.
NoHistory ==
    [removed_earlier |-> {}, undelivered |-> EmptyChanges, failed_fetches |-> {}]

Delays == {0, SecondsPerDay}

Init ==
    /\ file \in {Absent, Corrupt}
    /\ clock = 0
    /\ cache_days \in CacheDaysValues
    /\ pc = "start"
    /\ exit_status = -1
    /\ outcome = "running"
    /\ is_first_run = FALSE
    /\ state = EmptyState
    /\ current_doctors = <<>>
    /\ current_ids = <<>>
    /\ changes = EmptyChanges
    /\ idx = 0
    /\ notify_calls = 0
    /\ fetch_calls = 0
    /\ file_at_start = file
    /\ runs = 1
    /\ calls = <<>>
    /\ lookups = <<>>
    /\ history = NoHistory

\* The process ends: return from main(), or an exception nobody catches.
Exit(status, how) ==
    /\ pc' = "done"
    /\ exit_status' = status
    /\ outcome' = how

\* main: a required variable (BOT_TOKEN, CHANNEL_ID, SEARCH_MODE) is missing.
MissingEnvVars ==
    /\ pc = "start"
    /\ Exit(1, "missing_env_vars")
    /\ UNCHANGED <<file, clock, cache_days, is_first_run, state, current_doctors,
                   current_ids, changes, idx, notify_calls, fetch_calls,
                   file_at_start, runs, calls,
                   lookups, history>>

\* main: get_search_url() raises ValueError (SEARCH_MODE invalid, or AMBITO_ID /
\* COMUNE_CODE missing).
SearchUrlRaises ==
    /\ pc = "start"
    /\ Exit(1, "search_url_error")
    /\ UNCHANGED <<file, clock, cache_days, is_first_run, state, current_doctors,
                   current_ids, changes, idx, notify_calls, fetch_calls,
                   file_at_start, runs, calls,
                   lookups, history>>

\* main: the configuration is valid; is_first_run and state are set.
LoadPreviousState ==
    /\ pc = "start"
    /\ is_first_run' = ~FileExists(file)
    /\ state' = LoadState(file)
    /\ pc' = "scrape"
    /\ UNCHANGED <<file, clock, cache_days, exit_status, outcome, current_doctors,
                   current_ids, changes, idx, notify_calls, fetch_calls,
                   file_at_start, runs, calls,
                   lookups, history>>

\* main: scrape_doctor_list() raises (HTTP error, unexpected table structure).
ScrapeListRaises ==
    /\ pc = "scrape"
    /\ Exit(1, "scrape_error")
    /\ UNCHANGED <<file, clock, cache_days, is_first_run, state, current_doctors,
                   current_ids, changes, idx, notify_calls, fetch_calls,
                   file_at_start, runs, calls,
                   lookups, history>>

\* Mutant of ScrapeNoDoctors: the empty listing is saved before the run gives up.
ScrapeNoDoctorsSaved ==
    /\ pc = "scrape"
    /\ current_doctors' = <<>>
    /\ file' = SaveState(EmptyState)
    /\ Exit(1, "no_doctors")
    /\ UNCHANGED <<clock, cache_days, is_first_run, state, current_ids,
                   changes, idx, notify_calls, fetch_calls, file_at_start, runs, calls,
                   lookups, history>>

\* main: "if not current_doctors: return 1"
ScrapeNoDoctors ==
    /\ pc = "scrape"
    /\ current_doctors' = <<>>
    /\ Exit(1, "no_doctors")
    /\ UNCHANGED <<file, clock, cache_days, is_first_run, state, current_ids,
                   changes, idx, notify_calls, fetch_calls, file_at_start, runs, calls,
                   lookups, history>>

\* main: new_state of the first run
FirstRunState(doctors) == [doctors |-> KeyById(doctors), location_cache |-> <<>>]

\* main: first run, the state is initialized from the listing and nothing is posted.
FirstRun ==
    /\ pc = "scrape"
    /\ is_first_run
    /\ \E listing \in Listings \ {<<>>} :
        /\ current_doctors' = listing
        /\ file' = SaveState(FirstRunState(listing))
    /\ Exit(0, "initialized")
    /\ UNCHANGED <<clock, cache_days, is_first_run, state, current_ids, changes,
                   idx, notify_calls, fetch_calls, file_at_start, runs, calls,
                   lookups, history>>

\* main: a later run, detect_changes is entered.
EnterDetectChanges ==
    /\ pc = "scrape"
    /\ ~is_first_run
    /\ \E listing \in Listings \ {<<>>} :
        /\ current_doctors' = listing
        /\ current_ids' = KeyById(listing)
    /\ changes' = EmptyChanges
    /\ idx' = 1
    /\ pc' = "added"
    /\ UNCHANGED <<file, clock, cache_days, exit_status, outcome, is_first_run, state,
                   notify_calls, fetch_calls, file_at_start, runs, calls,
                   lookups, history>>

\* detect_changes: one iteration of "for doc_id, doctor in current_ids.items()"
\* of the added loop.
DetectAdded ==
    /\ pc = "added"
    /\ idx <= Len(current_ids)
    /\ LET doctor == current_ids[idx] IN
       IF IsAdded(doctor.id, previous_ids)
       THEN \E response \in Responses :
              LET got == GetDoctorLocations(doctor.id, location_cache, cache_days,
                                            clock, response)
                  found == SetLocations(doctor, got.locations)
              IN  /\ state' = [state EXCEPT !.location_cache = got.location_cache]
                  /\ current_ids' = [current_ids EXCEPT ![idx] = found]
                  /\ changes' = [changes EXCEPT !.added = Append(@, found)]
                  /\ clock' = clock + got.slept
                  /\ fetch_calls' = fetch_calls + got.fetches
                  /\ lookups' = Append(lookups,
                         LookupMade(doctor.id, clock, got, response))
       ELSE UNCHANGED <<state, current_ids, changes, clock, fetch_calls, lookups>>
    /\ idx' = idx + 1
    /\ UNCHANGED <<file, cache_days, pc, exit_status, outcome, is_first_run,
                   current_doctors, notify_calls, file_at_start, runs, calls,
                   history>>

\* detect_changes: the added loop is over, the removed loop starts.
AddedLoopEnds ==
    /\ pc = "added"
    /\ idx > Len(current_ids)
    /\ pc' = "removed"
    /\ idx' = 1
    /\ UNCHANGED <<file, clock, cache_days, exit_status, outcome, is_first_run, state,
                   current_doctors, current_ids, changes, notify_calls, fetch_calls,
                   file_at_start, runs, calls,
                   lookups, history>>

\* detect_changes: one iteration of "for doc_id, doctor in previous_ids.items()".
\* doctor is the dict held by previous_ids, so the assignment changes it there.
DetectRemoved ==
    /\ pc = "removed"
    /\ idx <= Len(previous_ids)
    /\ LET doctor == previous_ids[idx] IN
       IF IsRemoved(doctor.id, current_ids)
       THEN LET gone == SetLocations(doctor, CachedLocations(location_cache, doctor.id))
            IN  /\ state' = [state EXCEPT !.doctors[idx] = gone]
                /\ changes' = [changes EXCEPT !.removed = Append(@, gone)]
       ELSE UNCHANGED <<state, changes>>
    /\ idx' = idx + 1
    /\ UNCHANGED <<file, clock, cache_days, pc, exit_status, outcome, is_first_run,
                   current_doctors, current_ids, notify_calls, fetch_calls,
                   file_at_start, runs, calls,
                   lookups, history>>

\* detect_changes: the removed loop is over, the availability loop starts.
RemovedLoopEnds ==
    /\ pc = "removed"
    /\ idx > Len(previous_ids)
    /\ pc' = "changed"
    /\ idx' = 1
    /\ UNCHANGED <<file, clock, cache_days, exit_status, outcome, is_first_run, state,
                   current_doctors, current_ids, changes, notify_calls, fetch_calls,
                   file_at_start, runs, calls,
                   lookups, history>>

\* Mutant of DetectChanged: the old and the new availability change places.
DetectChangedSwapped ==
    /\ pc = "changed"
    /\ idx <= Len(current_ids)
    /\ LET current_doctor == current_ids[idx] IN
       IF IsChanged(current_doctor, previous_ids)
       THEN \E response \in Responses :
              LET previous_doctor == Lookup(previous_ids, current_doctor.id)
                  got == GetDoctorLocations(current_doctor.id, location_cache,
                                            cache_days, clock, response)
                  found == SetLocations(current_doctor, got.locations)
              IN  /\ state' = [state EXCEPT !.location_cache = got.location_cache]
                  /\ current_ids' = [current_ids EXCEPT ![idx] = found]
                  /\ changes' = [changes EXCEPT !.changed =
                        Append(@, <<found, current_doctor.availability,
                                    previous_doctor.availability>>)]
                  /\ clock' = clock + got.slept
                  /\ fetch_calls' = fetch_calls + got.fetches
                  /\ lookups' = Append(lookups,
                         LookupMade(current_doctor.id, clock, got, response))
       ELSE UNCHANGED <<state, current_ids, changes, clock, fetch_calls, lookups>>
    /\ idx' = idx + 1
    /\ UNCHANGED <<file, cache_days, pc, exit_status, outcome, is_first_run,
                   current_doctors, notify_calls, file_at_start, runs, calls,
                   history>>

\* detect_changes: one iteration of "for doc_id, current_doctor in current_ids.items()"
\* of the availability loop.
DetectChanged ==
    /\ pc = "changed"
    /\ idx <= Len(current_ids)
    /\ LET current_doctor == current_ids[idx] IN
       IF IsChanged(current_doctor, previous_ids)
       THEN \E response \in Responses :
              LET previous_doctor == Lookup(previous_ids, current_doctor.id)
                  got == GetDoctorLocations(current_doctor.id, location_cache,
                                            cache_days, clock, response)
                  found == SetLocations(current_doctor, got.locations)
              IN  /\ state' = [state EXCEPT !.location_cache = got.location_cache]
                  /\ current_ids' = [current_ids EXCEPT ![idx] = found]
                  /\ changes' = [changes EXCEPT !.changed =
                        Append(@, <<found, previous_doctor.availability,
                                    current_doctor.availability>>)]
                  /\ clock' = clock + got.slept
                  /\ fetch_calls' = fetch_calls + got.fetches
                  /\ lookups' = Append(lookups,
                         LookupMade(current_doctor.id, clock, got, response))
       ELSE UNCHANGED <<state, current_ids, changes, clock, fetch_calls, lookups>>
    /\ idx' = idx + 1
    /\ UNCHANGED <<file, cache_days, pc, exit_status, outcome, is_first_run,
                   current_doctors, notify_calls, file_at_start, runs, calls,
                   history>>

\* Mutant of ShouldPost: only added doctors count.
ShouldPostAddedOnly(c) == Len(c.added) > 0

\* Mutant of ShouldPost: nothing is ever posted.
ShouldPostNever(c) == FALSE

\* main: "if total_changes > 0"
ShouldPost(c) == TotalChanges(c) > 0

\* detect_changes returns; main decides whether to post.
DetectChangesReturns ==
    /\ pc = "changed"
    /\ idx > Len(current_ids)
    /\ pc' = IF ShouldPost(changes) THEN "post" ELSE "save"
    /\ idx' = 0
    /\ UNCHANGED <<file, clock, cache_days, exit_status, outcome, is_first_run, state,
                   current_doctors, current_ids, changes, notify_calls, fetch_calls,
                   file_at_start, runs, calls,
                   lookups, history>>

\* main: asyncio.run(post_to_telegram(changes)) returns.
PostToTelegram ==
    /\ pc = "post"
    /\ notify_calls' = notify_calls + 1
    /\ pc' = "save"
    /\ UNCHANGED <<file, clock, cache_days, exit_status, outcome, is_first_run, state,
                   current_doctors, current_ids, changes, idx, fetch_calls,
                   file_at_start, runs, calls,
                   lookups, history>>

\* Mutant of PostToTelegramRaises: the state is saved although the delivery failed.
PostToTelegramRaisesSaved ==
    /\ pc = "post"
    /\ notify_calls' = notify_calls + 1
    /\ file' = SaveState([doctors |-> current_ids, location_cache |-> location_cache])
    /\ Exit(1, "post_error")
    /\ UNCHANGED <<clock, cache_days, is_first_run, state, current_doctors,
                   current_ids, changes, idx, fetch_calls, file_at_start, runs, calls,
                   lookups, history>>

\* main: asyncio.run(post_to_telegram(changes)) raises; main has no handler, the
\* process ends with the traceback.
PostToTelegramRaises ==
    /\ pc = "post"
    /\ notify_calls' = notify_calls + 1
    /\ Exit(1, "post_error")
    /\ UNCHANGED <<file, clock, cache_days, is_first_run, state, current_doctors,
                   current_ids, changes, idx, fetch_calls, file_at_start, runs, calls,
                   lookups, history>>

\* Mutant of NewState: the cache is pruned to the doctors of the listing.
NewStatePrunedCache ==
    [doctors |-> current_ids,
     location_cache |-> [id \in DOMAIN location_cache \cap Keys(current_ids) |->
                            location_cache[id]]]

\* Mutant of NewState: the loaded state is saved instead of new_state.
NewStateStale == [doctors |-> previous_ids, location_cache |-> location_cache]

\* main: new_state of a later run.  The dicts of current_doctors are the ones
\* current_ids holds, with the locations detect_changes set on them.
NewState == [doctors |-> current_ids, location_cache |-> location_cache]

\* main: save_state(new_state); return 0
SaveUpdatedState ==
    /\ pc = "save"
    /\ file' = SaveState(NewState)
    /\ Exit(0, "saved")
    /\ UNCHANGED <<clock, cache_days, is_first_run, state, current_doctors,
                   current_ids, changes, idx, notify_calls, fetch_calls,
                   file_at_start, runs, calls,
                   lookups, history>>

\* The next invocation of the script, some time later, when fewer than
\* max_runs invocations were made.
NextInvocation(max_runs) ==
    /\ pc = "done"
    /\ \E d \in Delays :
        /\ clock + d < (MaxDays + 1) * SecondsPerDay
        /\ clock' = clock + d
    /\ runs < max_runs
    /\ runs' = runs + 1
    /\ pc' = "start"
    /\ exit_status' = -1
    /\ outcome' = "running"
    /\ is_first_run' = FALSE
    /\ state' = EmptyState
    /\ current_doctors' = <<>>
    /\ current_ids' = <<>>
    /\ changes' = EmptyChanges
    /\ idx' = 0
    /\ notify_calls' = 0
    /\ fetch_calls' = 0
    /\ file_at_start' = file
    /\ lookups' = <<>>
    /\ UNCHANGED <<file, cache_days, calls>>

\* The next invocation of the script.
Invoke ==
    /\ NextInvocation(MaxRuns)
    /\ UNCHANGED <<history>>

Next ==
    \/ MissingEnvVars
    \/ SearchUrlRaises
    \/ LoadPreviousState
    \/ ScrapeListRaises
    \/ ScrapeNoDoctors
    \/ FirstRun
    \/ EnterDetectChanges
    \/ DetectAdded
    \/ AddedLoopEnds
    \/ DetectRemoved
    \/ RemovedLoopEnds
    \/ DetectChanged
    \/ DetectChangesReturns
    \/ PostToTelegram
    \/ PostToTelegramRaises
    \/ SaveUpdatedState
    \/ Invoke

Spec == Init /\ [][Next]_vars

(***************************************************************************)
(* Properties of main() and detect_changes, checked under Spec.            *)
(***************************************************************************)
\* detect_changes has returned in this run.
DetectChangesDone ==
    \/ pc \in {"post", "save"}
    \/ pc = "done" /\ outcome \in {"saved", "post_error"}

\* The run is over and was a later run whose listing came back non-empty.
SteadyRunDone == pc = "done" /\ ~is_first_run /\ current_doctors # <<>>

\* The previous snapshot as it was loaded, before detect_changes touched it.
PreviousAtStart == LoadState(file_at_start).doctors

CacheAtStart == LoadState(file_at_start).location_cache

ListingIds == {current_doctors[i].id : i \in 1..Len(current_doctors)}

\* The listing keyed by id: the last row with that id.
LastRow(id) ==
    current_doctors[CHOOSE i \in 1..Len(current_doctors) :
        /\ current_doctors[i].id = id
        /\ \A j \in (i + 1)..Len(current_doctors) : current_doctors[j].id # id]

\* The fields a row of the listing has.
ListingFields(doctor) ==
    [id |-> doctor.id, first_name |-> doctor.first_name,
     last_name |-> doctor.last_name, availability |-> doctor.availability]

AddedIds == {changes.added[i].id : i \in 1..Len(changes.added)}
RemovedIds == {changes.removed[i].id : i \in 1..Len(changes.removed)}
ChangedIds == {changes.changed[i][1].id : i \in 1..Len(changes.changed)}

\* The snapshot a later run is to persist: the listing keyed by id, with the
\* locations detect_changes attached, and the cache as detect_changes left it.
NewSnapshot ==
    [kind |-> "valid", doctors |-> current_ids, location_cache |-> state.location_cache]

\* C1: detect_changes puts every id of previous and current into exactly one
\* class: added (in current only), removed (in previous only), changed (in both,
\* availability differs) or unchanged (in no list); no id is in two lists or
\* twice in one list.
C1_Partition ==
    DetectChangesDone =>
        /\ \A id \in Ids :
            /\ id \in AddedIds <=> (id \in ListingIds /\ id \notin Keys(PreviousAtStart))
            /\ id \in RemovedIds <=> (id \in Keys(PreviousAtStart) /\ id \notin ListingIds)
            /\ id \in ChangedIds <=>
                 /\ id \in ListingIds
                 /\ id \in Keys(PreviousAtStart)
                 /\ LastRow(id).availability # Lookup(PreviousAtStart, id).availability
        /\ Len(changes.added) = Cardinality(AddedIds)
        /\ Len(changes.removed) = Cardinality(RemovedIds)
        /\ Len(changes.changed) = Cardinality(ChangedIds)
        /\ AddedIds \cap RemovedIds = {}
        /\ AddedIds \cap ChangedIds = {}
        /\ RemovedIds \cap ChangedIds = {}

\* C1 witness: one run classified one id as added and the other as changed.
C1_Witness ==
    /\ DetectChangesDone
    /\ Len(changes.added) = 1
    /\ Len(changes.changed) = 1

FileIsListing ==
    /\ file.kind = "valid"
    /\ Keys(file.doctors) = ListingIds
    /\ Len(file.doctors) = Cardinality(ListingIds)
    /\ \A i \in 1..Len(file.doctors) : file.doctors[i] = LastRow(file.doctors[i].id)

\* The file holds the listing keyed by id, where the doctors this run classified
\* as added or changed carry a 'locations' list besides the fields of their row.
FileIsListingWithLocations ==
    /\ file.kind = "valid"
    /\ Keys(file.doctors) = ListingIds
    /\ Len(file.doctors) = Cardinality(ListingIds)
    /\ \A i \in 1..Len(file.doctors) :
        LET saved == file.doctors[i] IN
        /\ ListingFields(saved) = LastRow(saved.id)
        /\ "locations" \in DOMAIN saved <=> saved.id \in AddedIds \cup ChangedIds

ListingFailed ==
    /\ pc = "done"
    /\ \/ outcome \in {"missing_env_vars", "search_url_error", "scrape_error",
                       "no_doctors"}
       \/ current_doctors = <<>>

\* C4: when a required variable is missing, get_search_url raises, the listing
\* fetch raises or the listing is empty, in a first run or a later one, the run
\* ends with a nonzero status and has written nothing, looked up no locations
\* and posted nothing: the file is what it was before the run.
C4_FailedRun ==
    ListingFailed =>
        /\ exit_status # 0
        /\ file = file_at_start
        /\ fetch_calls = 0
        /\ notify_calls = 0

\* C4 witness: a later run found the listing empty and left the snapshot alone.
C4_Witness ==
    /\ pc = "done"
    /\ outcome = "no_doctors"
    /\ file_at_start.kind = "valid"
    /\ file_at_start.location_cache # <<>>

\* C5: with no file and a non-empty listing the run writes exactly the listed
\* doctors keyed by id with an empty cache, exits with 0, posts nothing and
\* looks up no locations.
C5_Bootstrap ==
    (pc = "done" /\ file_at_start.kind = "absent" /\ current_doctors # <<>>) =>
        /\ FileIsListing
        /\ file.location_cache = <<>>
        /\ exit_status = 0
        /\ notify_calls = 0
        /\ fetch_calls = 0

\* C5 witness: a first run over a listing of two doctors has ended.
C5_Witness ==
    /\ pc = "done"
    /\ file_at_start.kind = "absent"
    /\ Cardinality(ListingIds) = 2

\* The listing keyed by id has the ids of the previous snapshot, each with the
\* id, names and availability it has there.
SameSnapshot ==
    /\ ListingIds = Keys(PreviousAtStart)
    /\ \A id \in ListingIds : LastRow(id) = ListingFields(Lookup(PreviousAtStart, id))

\* C6: detect_changes of a snapshot against itself, whatever the cache, finds
\* nothing added, removed or changed.
C6_Idempotence ==
    (DetectChangesDone /\ SameSnapshot) =>
        /\ changes.added = <<>>
        /\ changes.removed = <<>>
        /\ changes.changed = <<>>

\* C6 witness: detect_changes returned for a listing equal to a previous
\* snapshot of two doctors, with a cache that is not empty.
C6_Witness ==
    /\ DetectChangesDone
    /\ SameSnapshot
    /\ Cardinality(ListingIds) = 2
    /\ CacheAtStart # <<>>

C10_Original == DetectChangesDone => state.doctors = PreviousAtStart

\* The record of a removed doctor after detect_changes: 'locations' is set to the
\* cached locations, or to the empty list without a cache entry.
WithCachedLocations(doctor) ==
    [id |-> doctor.id, first_name |-> doctor.first_name,
     last_name |-> doctor.last_name, availability |-> doctor.availability,
     locations |-> IF doctor.id \in DOMAIN CacheAtStart
                   THEN CacheAtStart[doctor.id].locations ELSE <<>>]

\* C10 amended: detect_changes leaves the keys and their order, and every record
\* of an id that is not removed, as they were; on the record of a removed id it
\* sets 'locations' (to the cached locations, else the empty list) and leaves the
\* other fields as they were.
C10_OnlyRemovedMutated ==
    DetectChangesDone =>
        /\ Len(state.doctors) = Len(PreviousAtStart)
        /\ \A i \in 1..Len(PreviousAtStart) :
            IF PreviousAtStart[i].id \in ListingIds
            THEN state.doctors[i] = PreviousAtStart[i]
            ELSE state.doctors[i] = WithCachedLocations(PreviousAtStart[i])

\* C10 witness: detect_changes returned having changed the record of a removed
\* doctor, next to a doctor that stayed.
C10_Witness ==
    /\ DetectChangesDone
    /\ Len(PreviousAtStart) = 2
    /\ \E i \in 1..2 : state.doctors[i] # PreviousAtStart[i]
    /\ \E i \in 1..2 : PreviousAtStart[i].id \in ListingIds

(***************************************************************************)
(* get_doctor_locations on its own: the calls are applied to a cache       *)
(* drawn from a bounded set, each with a current_time of its own.          *)
(***************************************************************************)
Nows == {d * SecondsPerDay + t : d \in 0..1, t \in 0..1}

LocationLists == {CollectLocations(p) : p \in Pages}

Entries == {NewEntry(l, t) : l \in LocationLists, t \in Nows}

Caches == UNION {[S -> Entries] : S \in SUBSET Ids}

InitCache ==
    /\ file = Absent
    /\ clock = 0
    /\ cache_days \in CacheDaysValues
    /\ pc = "lookup"
    /\ exit_status = -1
    /\ outcome = "running"
    /\ is_first_run = FALSE
    /\ state \in {[doctors |-> <<>>, location_cache |-> c] : c \in Caches}
    /\ current_doctors = <<>>
    /\ current_ids = <<>>
    /\ changes = EmptyChanges
    /\ idx = 0
    /\ notify_calls = 0
    /\ fetch_calls = 0
    /\ file_at_start = file
    /\ runs = 1
    /\ calls = <<>>
    /\ lookups = <<>>
    /\ history = NoHistory

\* time.time() does not run backwards: no entry of the cache was written
\* later than current_time.
NotFromTheFuture(cache, current_time) ==
    \A id \in DOMAIN cache : cache[id].timestamp <= current_time

\* One call get_doctor_locations(doctor_id, detail_url, location_cache) at time
\* current_time; what the call was given and what it did is appended to calls.
CallGetDoctorLocations ==
    /\ pc = "lookup"
    /\ Len(calls) < MaxCalls
    /\ \E doctor_id \in Ids, current_time \in Nows, response \in Responses :
        LET got == GetDoctorLocations(doctor_id, location_cache, cache_days,
                                      current_time, response)
        IN  /\ NotFromTheFuture(location_cache, current_time)
            /\ state' = [state EXCEPT !.location_cache = got.location_cache]
            /\ calls' = Append(calls,
                   [doctor_id |-> doctor_id, current_time |-> current_time,
                    before |-> location_cache, after |-> got.location_cache,
                    scraped |-> ScrapeDoctorLocations(response),
                    locations |-> got.locations, fetches |-> got.fetches])
    /\ UNCHANGED <<file, clock, cache_days, pc, exit_status, outcome, is_first_run,
                   current_doctors, current_ids, changes, idx, notify_calls,
                   fetch_calls, file_at_start, runs, lookups, history>>

NextCache == CallGetDoctorLocations

SpecCache == InitCache /\ [][NextCache]_vars

(***************************************************************************)
(* Properties of get_doctor_locations, checked under SpecCache.            *)
(***************************************************************************)
\* Two consecutive calls for the same id at the same current_time (the TTL is
\* the same for all calls of a behaviour).
SameCallTwice(i) ==
    /\ i + 1 <= Len(calls)
    /\ calls[i].doctor_id = calls[i + 1].doctor_id
    /\ calls[i].current_time = calls[i + 1].current_time

\* C7 as stated: for every id, every ttl and every now, the second of two calls
\* for the same id with the same now and ttl makes no detail fetch and returns the
\* locations the first call stored.
C7_Original ==
    \A i \in 1..Len(calls) :
        SameCallTwice(i) =>
            /\ calls[i + 1].fetches = 0
            /\ calls[i + 1].locations = calls[i].after[calls[i].doctor_id].locations

\* C7 amended: with a TTL greater than 0, the second of two calls for the same id
\* with the same now and ttl makes no detail fetch, leaves the cache as it is and
\* returns the locations the cache holds after the first call, which are the
\* locations the first call returned.
C7_CacheFreshness ==
    \A i \in 1..Len(calls) :
        (SameCallTwice(i) /\ cache_days > 0) =>
            /\ calls[i + 1].fetches = 0
            /\ calls[i + 1].after = calls[i].after
            /\ calls[i + 1].locations = calls[i].after[calls[i].doctor_id].locations
            /\ calls[i + 1].locations = calls[i].locations

\* C7 witness: the first call missed and scraped, the second one, same id and
\* same now, TTL > 0, has returned.
C7_Witness ==
    /\ Len(calls) = 2
    /\ SameCallTwice(1)
    /\ cache_days > 0
    /\ calls[1].fetches = 1
    /\ calls[1].locations # <<>>

\* The call found no entry for its id, or one at least as old as the TTL.
MissingOrExpired(c) ==
    \/ c.doctor_id \notin DOMAIN c.before
    \/ c.current_time - c.before[c.doctor_id].timestamp >= cache_days * 24 * 3600

\* C8: a call for an id without a cache entry, or whose entry has
\* now - timestamp >= ttl, makes exactly one detail fetch, overwrites the entry of
\* that id with {locations: the scraped list, timestamp: now}, returns the scraped
\* list, and leaves the entries of all other ids as they were.
C8_CacheExpiry ==
    \A i \in 1..Len(calls) :
        LET c == calls[i] IN
        MissingOrExpired(c) =>
            /\ c.fetches = 1
            /\ c.doctor_id \in DOMAIN c.after
            /\ c.after[c.doctor_id] =
                   [locations |-> c.scraped, timestamp |-> c.current_time]
            /\ c.locations = c.scraped
            /\ DOMAIN c.after = (DOMAIN c.before) \cup {c.doctor_id}
            /\ \A k \in (DOMAIN c.before) \ {c.doctor_id} : c.after[k] = c.before[k]

\* C8 witness: an entry exactly as old as the TTL (> 0) was overwritten by a call
\* that scraped other locations, while the other id had an entry.
C8_Witness ==
    \E i \in 1..Len(calls) :
        LET c == calls[i] IN
        /\ cache_days > 0
        /\ c.doctor_id \in DOMAIN c.before
        /\ c.current_time - c.before[c.doctor_id].timestamp = cache_days * 24 * 3600
        /\ c.before[c.doctor_id].locations # c.scraped
        /\ DOMAIN c.before = Ids
        /\ c.fetches = 1


(***************************************************************************)
(* Runs that remember what the run before them did.                        *)
(***************************************************************************)
\* The scrape_doctor_locations calls of this run whose request raised.
FailedNow(saved) ==
    {[doctor_id |-> lookups[i].doctor_id, at |-> lookups[i].at, saved |-> saved] :
        i \in {j \in 1..Len(lookups) : lookups[j].raised}}

\* The next invocation of the script, remembering the fetches that failed so
\* far and the changes the run that ended could not post.
InvokeAfterFailure ==
    /\ NextInvocation(MaxRuns)
    /\ history' = [history EXCEPT
           !.undelivered = IF outcome = "post_error" THEN changes ELSE EmptyChanges,
           !.failed_fetches = @ \cup FailedNow(outcome = "saved")]

NextHistory ==
    \/ MissingEnvVars
    \/ SearchUrlRaises
    \/ LoadPreviousState
    \/ ScrapeListRaises
    \/ ScrapeNoDoctors
    \/ FirstRun
    \/ EnterDetectChanges
    \/ DetectAdded
    \/ AddedLoopEnds
    \/ DetectRemoved
    \/ RemovedLoopEnds
    \/ DetectChanged
    \/ DetectChangesReturns
    \/ PostToTelegram
    \/ PostToTelegramRaises
    \/ SaveUpdatedState
    \/ InvokeAfterFailure

SpecHistory == Init /\ [][NextHistory]_vars

(***************************************************************************)
(* Properties that span two runs, checked under SpecHistory.               *)
(***************************************************************************)
\* The record detect_changes put into added or changed for id.
Found(id) ==
    IF id \in AddedIds
    THEN changes.added[CHOOSE i \in 1..Len(changes.added) : changes.added[i].id = id]
    ELSE changes.changed[CHOOSE i \in 1..Len(changes.changed) :
                            changes.changed[i][1].id = id][1]

\* detect_changes is running or has returned in this run.
InDetectChanges == pc \in {"added", "removed", "changed"} \/ DetectChangesDone

\* Lookup i of this run found the entry that failed fetch f left, still in its TTL.
WithinTTLOf(i, f) ==
    /\ lookups[i].doctor_id = f.doctor_id
    /\ lookups[i].at - f.at < CacheExpirySeconds(cache_days)

Episode == <<"listed", "removed", "listed again">>
EpisodeRuns == Len(Episode)

InitReappear ==
    /\ Init
    /\ file = Corrupt

\* The ids of the removed list for which the cache holds an entry.
RemovedNow(saved) ==
    {[id |-> id, saved |-> saved, entry |-> location_cache[id]] :
        id \in RemovedIds \cap DOMAIN location_cache}

\* The next invocation of the script, remembering the doctors that were found
\* removed and are not back in the persisted snapshot.
InvokeAfterRemoval ==
    /\ NextInvocation(EpisodeRuns)
    /\ history' = [history EXCEPT !.removed_earlier =
           IF outcome = "saved"
           THEN {r \in @ : r.id \notin ListingIds \cup RemovedIds} \cup RemovedNow(TRUE)
           ELSE IF outcome = "post_error"
           THEN {r \in @ : r.id \notin RemovedIds} \cup RemovedNow(FALSE)
           ELSE @]

NextReappear ==
    \/ MissingEnvVars
    \/ SearchUrlRaises
    \/ LoadPreviousState
    \/ ScrapeListRaises
    \/ ScrapeNoDoctors
    \/ EnterDetectChanges
    \/ DetectAdded
    \/ AddedLoopEnds
    \/ DetectRemoved
    \/ RemovedLoopEnds
    \/ DetectChanged
    \/ DetectChangesReturns
    \/ PostToTelegram
    \/ PostToTelegramRaises
    \/ SaveUpdatedState
    \/ InvokeAfterRemoval

SpecReappear == InitReappear /\ [][NextReappear]_vars


(***************************************************************************)
(* Properties of detect_changes and the cache, checked under Spec.         *)
(***************************************************************************)
\* The cache entry of id is what it was when the run loaded the state: absent
\* as then, or equal to the entry of then.
SameEntry(id) ==
    /\ id \in DOMAIN location_cache <=> id \in DOMAIN CacheAtStart
    /\ id \in DOMAIN location_cache => location_cache[id] = CacheAtStart[id]

LookedUpIds == {lookups[i].doctor_id : i \in 1..Len(lookups)}

\* C12: for every id classified as removed no lookup and no detail fetch is
\* made; the removed record's locations are those of the cache entry the run
\* loaded for the id, whatever its age, and the empty sequence when there is
\* none; the cache entry of the id is neither created nor modified.
C12_RemovedReadsCacheOnly ==
    \A i \in 1..Len(changes.removed) :
        LET id == changes.removed[i].id IN
        /\ id \notin LookedUpIds
        /\ changes.removed[i].locations =
              IF id \in DOMAIN CacheAtStart THEN CacheAtStart[id].locations ELSE <<>>
        /\ SameEntry(id)

\* C12 witness: detect_changes returned with a removed doctor whose cache entry
\* has expired and holds a location.
C12_Witness ==
    /\ DetectChangesDone
    /\ \E i \in 1..Len(changes.removed) :
          LET id == changes.removed[i].id IN
          /\ id \in DOMAIN CacheAtStart
          /\ clock - CacheAtStart[id].timestamp >= CacheExpirySeconds(cache_days)
          /\ changes.removed[i].locations # <<>>

\* By the loaded snapshot and the listing, id is to be classified as added.
ToBeAdded(id) == id \in ListingIds \ Keys(PreviousAtStart)

\* By the loaded snapshot and the listing, id is to be classified as changed.
ToBeChanged(id) ==
    /\ id \in ListingIds \cap Keys(PreviousAtStart)
    /\ LastRow(id).availability # Lookup(PreviousAtStart, id).availability

\* C13: while detect_changes runs and after it, a cache entry differs from the
\* loaded one only for an id classified as added or changed; for an id that is
\* removed, unchanged or in neither snapshot the entry is the loaded one and
\* no lookup, hence no detail fetch, is made.
C13_CacheFrame ==
    InDetectChanges =>
        \A id \in Ids :
            /\ ~SameEntry(id) => id \in AddedIds \cup ChangedIds
            /\ ~(ToBeAdded(id) \/ ToBeChanged(id)) =>
                  (SameEntry(id) /\ id \notin LookedUpIds)

\* C13 witness: detect_changes returned; an unchanged doctor has an expired
\* cache entry, and the entry of a changed doctor was overwritten.
C13_Witness ==
    /\ DetectChangesDone
    /\ \E id \in ListingIds \cap Keys(PreviousAtStart) :
          /\ ~ToBeChanged(id)
          /\ id \in DOMAIN CacheAtStart
          /\ ~CacheHit(id, CacheAtStart, cache_days, clock)
    /\ \E id \in ChangedIds : ~SameEntry(id)


(***************************************************************************)
(* The TTL of 0 or less, checked under SpecCache.                          *)
(***************************************************************************)
\* C14: with CACHE_DAYS of 0 or less every call of get_doctor_locations calls
\* scrape_doctor_locations and writes the entry anew, also when the cache holds
\* an entry for the id whose timestamp is the current time.
C14_NoCachingWithoutTTL ==
    cache_days <= 0 =>
        \A i \in 1..Len(calls) :
            /\ calls[i].fetches = 1
            /\ calls[i].locations = calls[i].scraped
            /\ calls[i].after[calls[i].doctor_id] =
                  [locations |-> calls[i].scraped, timestamp |-> calls[i].current_time]

\* C14 witness: with CACHE_DAYS = 0 a call fetched although the cache held an
\* entry for the id written at the very same time, and so did a second call
\* for the id at that time.
C14_Witness ==
    /\ cache_days = 0
    /\ Len(calls) = 2
    /\ calls[1].doctor_id = calls[2].doctor_id
    /\ calls[1].current_time = calls[2].current_time
    /\ calls[1].doctor_id \in DOMAIN calls[1].before
    /\ calls[1].before[calls[1].doctor_id].timestamp = calls[1].current_time
    /\ calls[1].fetches = 1
    /\ calls[2].fetches = 1


(***************************************************************************)
(* A doctor that leaves the listing and comes back, checked under          *)
(* SpecReappear.                                                           *)
(***************************************************************************)
\* The lookup this run made for id.
LookupOf(id) == lookups[CHOOSE i \in 1..Len(lookups) : lookups[i].doctor_id = id]

\* An earlier run found r.id removed, this run lists it and detect_changes
\* has returned.
ListedAgain(r) == DetectChangesDone /\ r.id \in ListingIds

\* The entry r.entry the cache held at the removal is the one this run loaded,
\* this run classified the id as added and, when the entry was within its TTL
\* at the lookup, took the locations from it without a detail fetch.
AddedFromCache(r) ==
    /\ r.id \in AddedIds
    /\ LookupOf(r.id).at - r.entry.timestamp < CacheExpirySeconds(cache_days) =>
          /\ ~LookupOf(r.id).fetched
          /\ Found(r.id).locations = r.entry.locations

\* The persisted cache still holds the entry it held at the removal.
EntrySurvives(r) ==
    /\ r.id \in DOMAIN CacheAtStart
    /\ CacheAtStart[r.id] = r.entry

TriplesOf(id) == {i \in 1..Len(changes.changed) : changes.changed[i][1].id = id}

\* C16: for every id in both snapshots whose availability differs the changed
\* list holds exactly one triple; its doctor is the current record (the row of
\* the listing, as current_ids holds it), its old availability is the one of
\* the previous snapshot and its new one that of the listing; the old and the
\* new availability of every triple differ.
C16_ChangedTriples ==
    DetectChangesDone =>
        /\ \A id \in Ids : ToBeChanged(id) =>
              /\ Cardinality(TriplesOf(id)) = 1
              /\ \A i \in TriplesOf(id) :
                    /\ ListingFields(changes.changed[i][1]) = ListingFields(LastRow(id))
                    /\ changes.changed[i][1] = Lookup(current_ids, id)
                    /\ changes.changed[i][2] = Lookup(PreviousAtStart, id).availability
                    /\ changes.changed[i][3] = LastRow(id).availability
        /\ \A i \in 1..Len(changes.changed) :
              changes.changed[i][2] # changes.changed[i][3]

\* C16 witness: detect_changes returned two triples, one doctor went from full
\* to available and the other from available to full.
C16_Witness ==
    /\ DetectChangesDone
    /\ Len(changes.changed) = 2
    /\ changes.changed[1][2] = "full"
    /\ changes.changed[1][3] = "available"
    /\ changes.changed[2][2] = "available"
    /\ changes.changed[2][3] = "full"


\* No entry of cache old has a later timestamp than its entry in cache new.
NotOlder(old, new) ==
    \A id \in DOMAIN old \cap DOMAIN new : new[id].timestamp >= old[id].timestamp

\* This step is a call of get_doctor_locations that wrote the cache.
CacheWrite == pc \in {"added", "changed"} /\ fetch_calls' = fetch_calls + 1

\* C17: the timestamp of a cache entry never decreases, in the cache of a run
\* and in the persisted cache from one save to the next; a write of
\* get_doctor_locations replaces the entry of its id by the locations it
\* returns and the current time, which is not earlier than the timestamp of
\* the entry it overwrites, and leaves the other entries alone.
C17_TimestampsNonDecreasing ==
    [][/\ NotOlder(location_cache, location_cache')
       /\ NotOlder(LoadState(file).location_cache, LoadState(file').location_cache)
       /\ \A id \in Ids : (CacheWrite /\ lookups'[Len(lookups')].doctor_id = id) =>
             /\ location_cache'[id] =
                   [locations |-> Found(id)'.locations, timestamp |-> clock]
             /\ id \in DOMAIN location_cache =>
                   clock >= location_cache[id].timestamp
             /\ \A other \in DOMAIN location_cache \ {id} :
                   location_cache'[other] = location_cache[other]
             /\ DOMAIN location_cache' = DOMAIN location_cache \cup {id}
      ]_vars

\* C17 witness: a run overwrote the entry it had loaded for an id, with other
\* locations and a later timestamp.
C17_Witness ==
    /\ InDetectChanges
    /\ \E id \in DOMAIN CacheAtStart \cap DOMAIN location_cache :
          /\ location_cache[id].timestamp > CacheAtStart[id].timestamp
          /\ location_cache[id].locations = <<>>
          /\ CacheAtStart[id].locations # <<>>


(***************************************************************************)
(* Delivery before persistence, checked under SpecHistory.                 *)
(***************************************************************************)
\* The persisted doctors before this run and now.
PersistedBefore == LoadState(file_at_start).doctors
PersistedNow == LoadState(file).doctors

\* The difference between the two persisted mappings.
NewlyPersisted == Keys(PersistedNow) \ Keys(PersistedBefore)
NoLongerPersisted == Keys(PersistedBefore) \ Keys(PersistedNow)
PersistedOtherwise ==
    {id \in Keys(PersistedBefore) \cap Keys(PersistedNow) :
        Lookup(PersistedBefore, id).availability # Lookup(PersistedNow, id).availability}

\* The changes list holds exactly the difference of the persisted mappings.
CarriesTheDifference ==
    /\ AddedIds = NewlyPersisted
    /\ RemovedIds = NoLongerPersisted
    /\ ChangedIds = PersistedOtherwise
    /\ \A i \in 1..Len(changes.changed) :
          LET id == changes.changed[i][1].id IN
          /\ changes.changed[i][2] = Lookup(PersistedBefore, id).availability
          /\ changes.changed[i][3] = Lookup(PersistedNow, id).availability

\* The triple of this run's changed list for id.
TripleOf(id) ==
    changes.changed[CHOOSE i \in 1..Len(changes.changed) : changes.changed[i][1].id = id]

\* Every change the previous run could not post and the listing still shows is
\* in the changes of this run.
DetectedAgain ==
    /\ \A i \in 1..Len(history.undelivered.added) :
          LET id == history.undelivered.added[i].id IN
          id \in ListingIds => id \in AddedIds
    /\ \A i \in 1..Len(history.undelivered.removed) :
          LET id == history.undelivered.removed[i].id IN
          id \notin ListingIds => id \in RemovedIds
    /\ \A i \in 1..Len(history.undelivered.changed) :
          LET was == history.undelivered.changed[i]
              id == was[1].id
          IN  (id \in ListingIds /\ LastRow(id).availability = was[3]) =>
                  (id \in ChangedIds /\ TripleOf(id)[2] = was[2]
                                     /\ TripleOf(id)[3] = was[3])

C19_UnparsableFile ==
    file_at_start.kind = "corrupt" =>
        /\ ~is_first_run
        /\ outcome # "initialized"
        /\ PreviousAtStart = <<>>
        /\ CacheAtStart = <<>>
        /\ pc = "scrape" => state = EmptyState
        /\ DetectChangesDone =>
              /\ AddedIds = ListingIds
              /\ Len(changes.added) = Cardinality(ListingIds)
              /\ changes.removed = <<>>
              /\ changes.changed = <<>>
              /\ LookedUpIds = ListingIds
              /\ Len(lookups) = Cardinality(ListingIds)
              /\ \A i \in 1..Len(lookups) : lookups[i].fetched
        /\ (pc = "save" \/ file # file_at_start) => notify_calls = 1
        /\ (pc = "done" /\ outcome \in {"saved", "post_error"}) => notify_calls = 1
        /\ file # file_at_start => (pc = "done" /\ outcome = "saved" /\ file = NewSnapshot)

\* C19 witness: a run that started from an unparsable file classified two
\* doctors as added, posted once and wrote a state file that can be parsed.
C19_Witness ==
    /\ file_at_start.kind = "corrupt"
    /\ pc = "done"
    /\ outcome = "saved"
    /\ Len(changes.added) = 2
    /\ notify_calls = 1
    /\ fetch_calls = 2
    /\ file.kind = "valid"

\* The lookups of this run that called scrape_doctor_locations.
Fetches == {i \in 1..Len(lookups) : lookups[i].fetched}

\* C20: in one run scrape_doctor_locations is called at most once per doctor
\* id, also when the listing has two rows with the same id; the calls are for
\* ids classified as added or changed, so there are at most as many as such ids.
C20_OneFetchPerId ==
    /\ \A i, j \in Fetches : lookups[i].doctor_id = lookups[j].doctor_id => i = j
    /\ \A i, j \in 1..Len(lookups) : lookups[i].doctor_id = lookups[j].doctor_id => i = j
    /\ fetch_calls = Cardinality(Fetches)
    /\ LookedUpIds \subseteq AddedIds \cup ChangedIds
    /\ fetch_calls <= Cardinality(AddedIds \cup ChangedIds)
    /\ AddedIds \cap ChangedIds = {}

\* C20 witness: the listing had two rows with the same id, CACHE_DAYS is 0 and
\* detect_changes returned after one detail fetch.
C20_Witness ==
    /\ DetectChangesDone
    /\ Len(current_doctors) = 2
    /\ Cardinality(ListingIds) = 1
    /\ cache_days = 0
    /\ fetch_calls = 1

====
